---- MODULE Spec2Model ----
(***************************************************************************)
(* Model of whisper-sort-srt (src/src/main.rs, src/src/utils.rs): the      *)
(* subtitle pipeline  split_text_by_punctuation -> merge_subtitles ->      *)
(* format_time, with the token aligner match_segments.                     *)
(*                                                                         *)
(* Text is a sequence of characters, each character a one-character        *)
(* string.  Time is an integer count of 0.1 ms (Unit ticks per second), so *)
(* 1.0 s = 10000 and 3661.2396 s = 36612396.                               *)
(***************************************************************************)
EXTENDS Integers, Sequences, FiniteSets, TLC

VARIABLES
    segments,         \* whisper_output.segments: a sequence of utterances (word lists)
    seg_idx,          \* main: position of the `for segment in ...` loop (1-based)
    pc,               \* position in the program
    tokens,           \* split_text_by_punctuation: the tokenizer's segmentation, as returned
    word_tokens,      \* split_text_by_punctuation: alignment flags
    i,                \* split_text_by_punctuation: loop index of the walk (1-based)
    result,           \* split_text_by_punctuation: lines emitted so far / returned
    current_line,     \* split_text_by_punctuation: line buffer
    current_start,    \* split_text_by_punctuation: start time of the line buffer
    char_count,       \* split_text_by_punctuation: characters in the buffer
    word_index,       \* split_text_by_punctuation: index of the last word walked
    all_subtitles,    \* main: lines of all utterances / merge_subtitles: blocks
    merged_blocks,    \* merge_subtitles: output list
    mi,               \* merge_subtitles: loop index i (1-based)
    prev_need_merge,  \* merge_subtitles: carry flag
    output,           \* main: records written to the .srt file
    seconds,          \* format_time: argument (stand-alone runs)
    formatted         \* format_time: returned string (stand-alone runs)

vars == <<segments, seg_idx, pc, tokens, word_tokens, i, result, current_line,
          current_start, char_count, word_index, all_subtitles, merged_blocks,
          mi, prev_need_merge, output, seconds, formatted>>

splitVars == <<tokens, word_tokens, i, current_line, current_start, char_count,
               word_index>>
mergeVars == <<merged_blocks, mi, prev_need_merge>>
fmtVars == <<seconds, formatted>>

----------------------------------------------------------------------------
(* Program constants *)

LINE_MAX_WORD_LENGTH == 16
LINE_MIN_WORD_LENGTH == 10
\* ticks per second: the resolution the model keeps of an f64 number of seconds
Unit == 10000
\* LINE_MAX_DURATION = 10.0 seconds
LINE_MAX_DURATION == 10 * Unit
\* the literal 1.0 of merge_subtitles (duration < 1.0, gap < 1.0)
MERGE_THRESHOLD == 1 * Unit

----------------------------------------------------------------------------
(* Bounds of the model *)

\* longest utterance, in words
MaxWords == 18
\* first position at which a second special word may stand
SpecialFrom == 10
\* longest fixed-size segment the modelled tokenizer cuts
MaxSegLen == 2
\* utterances per run of the pipeline
MaxSegments == 2
\* blocks handed to merge_subtitles in its stand-alone runs
MaxBlocks == 3
\* words and segments of the stand-alone runs of match_segments
MaxAlignWords == 4
MaxAlignChars == 5

----------------------------------------------------------------------------
(* Characters and strings *)

\* "x" stands for an ordinary (e.g. Chinese) character.  Whitespace and
\* punctuation are the characters of the model's alphabet that str::trim
\* removes and that the array `punctuation` holds.
Whitespace == {" ", "\n"}
punctuation == {",", " "}
AsciiDigits == {"0", "1", "2", "3", "4", "5", "6", "7", "8", "9"}

RECURSIVE Flatten(_)
Flatten(ss) == IF ss = <<>> THEN <<>> ELSE Head(ss) \o Flatten(Tail(ss))

CharsCount(s) == Len(s)

RECURSIVE TrimStart(_)
TrimStart(s) ==
    IF s # <<>> /\ Head(s) \in Whitespace THEN TrimStart(Tail(s)) ELSE s

RECURSIVE TrimEnd(_)
TrimEnd(s) ==
    IF s # <<>> /\ s[Len(s)] \in Whitespace
    THEN TrimEnd(SubSeq(s, 1, Len(s) - 1)) ELSE s

Trim(s) == TrimEnd(TrimStart(s))

AsciiLower(c) ==
    CASE c = "H" -> "h"
      [] c = "I" -> "i"
      [] OTHER -> c

eq_ignore_ascii_case(a, b) ==
    /\ Len(a) = Len(b)
    /\ \A k \in 1..Len(a) : AsciiLower(a[k]) = AsciiLower(b[k])

\* str::lines().count(): pieces between "\n", a final "\n" opening no new line
LinesCount(s) ==
    IF s = <<>> THEN 0
    ELSE Cardinality({k \in 1..Len(s) : s[k] = "\n"})
         + (IF s[Len(s)] = "\n" THEN 0 ELSE 1)

WordsText(words) == Flatten([k \in 1..Len(words) |-> words[k].word])

----------------------------------------------------------------------------
(* match_segments: the token aligner *)

SegmentMatchedLoose(v_acc, w_acc) == CharsCount(v_acc) >= CharsCount(w_acc)
SegmentMatched(v_acc, w_acc) == CharsCount(v_acc) = CharsCount(w_acc)

\* the inner `loop` : st = [ts |-> remaining token_segments, w_idx, flags]
RECURSIVE MatchInner(_, _, _, _)
MatchInner(v_acc, w_acc, word_segments, st) ==
    IF SegmentMatched(v_acc, w_acc)
    THEN [st EXCEPT !.flags[st.w_idx] = TRUE]
    ELSE IF CharsCount(v_acc) > CharsCount(w_acc)
    THEN IF st.w_idx < Len(word_segments)
         THEN MatchInner(v_acc, w_acc \o word_segments[st.w_idx + 1].word,
                         word_segments, [st EXCEPT !.w_idx = @ + 1])
         ELSE st
    ELSE IF st.ts # <<>>
         THEN MatchInner(v_acc \o Head(st.ts), w_acc, word_segments,
                         [st EXCEPT !.ts = Tail(@)])
         ELSE st

\* the outer `while`
RECURSIVE MatchOuter(_, _)
MatchOuter(word_segments, st) ==
    IF st.ts # <<>> /\ st.w_idx < Len(word_segments)
    THEN MatchOuter(word_segments,
            MatchInner(Head(st.ts), word_segments[st.w_idx + 1].word,
                       word_segments,
                       [st EXCEPT !.ts = Tail(@), !.w_idx = @ + 1]))
    ELSE st

match_segments(token_segments, word_segments, flags) ==
    MatchOuter(word_segments,
               [ts |-> token_segments, w_idx |-> 0, flags |-> flags]).flags

----------------------------------------------------------------------------
(* utils::chinese_tokenize: an external tokenizer; any segmentation of the *)
(* text into pieces whose concatenation is the text.  The model cuts the   *)
(* text into pieces of k characters (the last one shorter).                *)

RECURSIVE Chunk(_, _)
Chunk(text, k) ==
    IF Len(text) <= k THEN (IF text = <<>> THEN <<>> ELSE <<text>>)
    ELSE <<SubSeq(text, 1, k)>> \o Chunk(SubSeq(text, k + 1, Len(text)), k)

chinese_tokenize(text) ==
    {Chunk(text, k) : k \in (1..MaxSegLen) \cup {Len(text)}}

----------------------------------------------------------------------------
(* split_text_by_punctuation: the line splitter *)

SubtitleLine(text, start_time, end_time) ==
    [text |-> text, start_time |-> start_time, end_time |-> end_time]

Words == segments[seg_idx]

HasPunctuation(w) == \E k \in 1..Len(w) : w[k] \in punctuation
is_number(w) == \A k \in 1..Len(w) : w[k] \in AsciiDigits \cup {".", "-"}

ShouldBreakLengthGt(w, count, current_duration, flag) ==
    \/ HasPunctuation(w) /\ count >= LINE_MIN_WORD_LENGTH
    \/ /\ count > LINE_MAX_WORD_LENGTH \/ current_duration > LINE_MAX_DURATION
       /\ ~is_number(w)
       /\ flag
ShouldBreakDurationGeq(w, count, current_duration, flag) ==
    \/ HasPunctuation(w) /\ count >= LINE_MIN_WORD_LENGTH
    \/ /\ count >= LINE_MAX_WORD_LENGTH \/ current_duration >= LINE_MAX_DURATION
       /\ ~is_number(w)
       /\ flag
\* the condition of the `if` of the walk, after the word was appended
ShouldBreak(w, count, current_duration, flag) ==
    \/ HasPunctuation(w) /\ count >= LINE_MIN_WORD_LENGTH
    \/ /\ count >= LINE_MAX_WORD_LENGTH \/ current_duration > LINE_MAX_DURATION
       /\ ~is_number(w)
       /\ flag

\* the early return for a short utterance
FastPathLine(words) ==
    <<SubtitleLine(WordsText(words), words[1].start, words[Len(words)].end)>>

LastLineDropRemainder(res, line, count, start, end_time) ==
    IF line # <<>>
    THEN IF count <= LINE_MIN_WORD_LENGTH \div 2 /\ res # <<>>
         THEN res
         ELSE Append(res, SubtitleLine(Trim(line), start, end_time))
    ELSE res
\* the handling of the last line, after the walk
LastLine(res, line, count, start, end_time) ==
    IF line # <<>>
    THEN IF count <= LINE_MIN_WORD_LENGTH \div 2 /\ res # <<>>
         THEN LET last_line == res[Len(res)]
              IN  Append(SubSeq(res, 1, Len(res) - 1),
                         SubtitleLine(last_line.text \o Trim(line),
                                      last_line.start_time, end_time))
         ELSE Append(res, SubtitleLine(Trim(line), start, end_time))
    ELSE res

\* main: the call of split_text_by_punctuation on a short utterance
FastPath ==
    /\ pc = "main"
    /\ seg_idx <= Len(segments)
    /\ Len(Words) <= LINE_MAX_WORD_LENGTH
    /\ result' = FastPathLine(Words)
    /\ all_subtitles' = all_subtitles \o result'
    /\ seg_idx' = seg_idx + 1
    /\ UNCHANGED <<segments, pc, splitVars, mergeVars, output, fmtVars>>

\* main: the call of split_text_by_punctuation on a long utterance, up to the walk
SplitBegin ==
    /\ pc = "main"
    /\ seg_idx <= Len(segments)
    /\ Len(Words) > LINE_MAX_WORD_LENGTH
    /\ result' = <<>>
    /\ current_line' = <<>>
    /\ current_start' = Words[1].start
    /\ char_count' = 0
    /\ word_index' = 0
    /\ \E ts \in chinese_tokenize(WordsText(Words)) :
          /\ tokens' = ts
          /\ word_tokens' = match_segments(ts, Words,
                                           [k \in 1..Len(Words) |-> FALSE])
    /\ i' = 1
    /\ pc' = "walk"
    /\ UNCHANGED <<segments, seg_idx, all_subtitles, mergeVars, output, fmtVars>>

\* one iteration of `for (i, word) in words.iter().enumerate()`
WalkStep ==
    /\ pc = "walk"
    /\ i <= Len(Words)
    /\ LET word == Words[i]
           word_len == CharsCount(word.word)
           current_duration == word.end - current_start
           line == current_line \o word.word
           count == char_count + word_len
       IN  /\ word_index' = i
           /\ IF ShouldBreak(word.word, count, current_duration, word_tokens[i])
              THEN /\ result' = Append(result,
                                  SubtitleLine(Trim(line), current_start, word.end))
                   /\ current_line' = <<>>
                   /\ current_start' = IF i + 1 <= Len(Words)
                                       THEN Words[i + 1].start
                                       ELSE current_start
                   /\ char_count' = 0
              ELSE /\ current_line' = line
                   /\ char_count' = count
                   /\ UNCHANGED <<result, current_start>>
    /\ i' = i + 1
    /\ UNCHANGED <<segments, seg_idx, pc, tokens, word_tokens, all_subtitles,
                   mergeVars, output, fmtVars>>

\* the last line, the return, and main's all_subtitles.extend
SplitEnd ==
    /\ pc = "walk"
    /\ i > Len(Words)
    /\ result' = LastLine(result, current_line, char_count, current_start,
                          Words[word_index].end)
    /\ all_subtitles' = all_subtitles \o result'
    /\ seg_idx' = seg_idx + 1
    /\ pc' = "main"
    /\ UNCHANGED <<segments, splitVars, mergeVars, output, fmtVars>>

----------------------------------------------------------------------------
(* format_time: the time formatter *)

DigitChars == <<"0", "1", "2", "3", "4", "5", "6", "7", "8", "9">>

RECURSIVE Decimal(_)
Decimal(n) ==
    IF n < 10 THEN <<DigitChars[n + 1]>>
    ELSE Decimal(n \div 10) \o <<DigitChars[(n % 10) + 1]>>

\* {:0w}: decimal digits, zero-padded on the left to at least w characters
RECURSIVE ZeroPad(_, _)
ZeroPad(digits, w) ==
    IF Len(digits) >= w THEN digits ELSE ZeroPad(<<"0">> \o digits, w)

\* f64::round of num/den for num, den >= 0: half away from zero
Round(num, den) == (2 * num + den) \div (2 * den)

\* ((seconds % 1.0) * 1000.0).round() as u32 / 10 * 10
Milliseconds(secs) == (Round((secs % Unit) * 1000, Unit) \div 10) * 10

format_time(secs) ==
    LET hours == secs \div (3600 * Unit)
        minutes == (secs % (3600 * Unit)) \div (60 * Unit)
        seconds_whole == (secs % (60 * Unit)) \div Unit
        milliseconds == Milliseconds(secs)
    IN  ZeroPad(Decimal(hours), 2) \o <<":">> \o ZeroPad(Decimal(minutes), 2)
        \o <<":">> \o ZeroPad(Decimal(seconds_whole), 2) \o <<",">>
        \o ZeroPad(Decimal(milliseconds), 3)

----------------------------------------------------------------------------
(* merge_subtitles: the block merger *)

Duration(b) == b.end_time - b.start_time
NeedMerge(b) == Duration(b) < MERGE_THRESHOLD

CanMergeGapLeq(prev, current, carry) ==
    /\ carry \/ NeedMerge(current)
    /\ current.start_time - prev.end_time <= MERGE_THRESHOLD
    /\ LinesCount(prev.text) < 2
\* the two nested `if`s that decide the merge
CanMerge(prev, current, carry) ==
    /\ carry \/ NeedMerge(current)
    /\ current.start_time - prev.end_time < MERGE_THRESHOLD
    /\ LinesCount(prev.text) < 2

CombinedTextAlways(prev_text, current_text) ==
    IF CharsCount(prev_text) + CharsCount(current_text) <= LINE_MAX_WORD_LENGTH
    THEN prev_text \o current_text
    ELSE prev_text \o <<"\n">> \o current_text
\* combined_text
CombinedText(prev_text, current_text) ==
    IF ~eq_ignore_ascii_case(prev_text, current_text)
    THEN IF CharsCount(prev_text) + CharsCount(current_text) <= LINE_MAX_WORD_LENGTH
         THEN prev_text \o current_text
         ELSE prev_text \o <<"\n">> \o current_text
    ELSE prev_text

MergedBlockKeepEnd(prev, current) ==
    SubtitleLine(CombinedText(prev.text, current.text),
                 current.start_time, prev.end_time)
\* the update of the last emitted block
MergedBlock(prev, current) ==
    SubtitleLine(CombinedText(prev.text, current.text),
                 prev.start_time, current.end_time)

\* main: the call of merge_subtitles, up to its loop
MergeBegin ==
    /\ pc = "main"
    /\ seg_idx > Len(segments)
    /\ merged_blocks' = <<>>
    /\ mi' = 1
    /\ prev_need_merge' = FALSE
    /\ pc' = "merge"
    /\ UNCHANGED <<segments, seg_idx, splitVars, result, all_subtitles, output,
                   fmtVars>>

\* one iteration of `while i < blocks.len()`
MergeStep ==
    /\ pc = "merge"
    /\ mi <= Len(all_subtitles)
    /\ LET current == all_subtitles[mi]
           n == Len(merged_blocks)
       IN  IF n > 0 /\ CanMerge(merged_blocks[n], current, prev_need_merge)
           THEN /\ merged_blocks' =
                      [merged_blocks EXCEPT ![n] = MergedBlock(@, current)]
                /\ prev_need_merge' = FALSE
           ELSE /\ merged_blocks' =
                      Append(merged_blocks,
                             SubtitleLine(current.text, current.start_time,
                                          current.end_time))
                /\ prev_need_merge' = NeedMerge(current)
    /\ mi' = mi + 1
    /\ UNCHANGED <<segments, seg_idx, pc, splitVars, result, all_subtitles,
                   output, fmtVars>>

\* the return of merge_subtitles
MergeEnd ==
    /\ pc = "merge"
    /\ mi > Len(all_subtitles)
    /\ pc' = "write"
    /\ UNCHANGED <<segments, seg_idx, splitVars, result, all_subtitles,
                   mergeVars, output, fmtVars>>

\* main: one iteration of the loop that writes the records
WriteStep ==
    /\ pc = "write"
    /\ Len(output) < Len(merged_blocks)
    /\ LET j == Len(output) + 1
           subtitle == merged_blocks[j]
       IN  output' = Append(output,
                        [index |-> j,
                         start |-> format_time(subtitle.start_time),
                         end |-> format_time(subtitle.end_time),
                         text |-> subtitle.text])
    /\ UNCHANGED <<segments, seg_idx, pc, splitVars, result, all_subtitles,
                   mergeVars, fmtVars>>

\* main: the file is written
WriteEnd ==
    /\ pc = "write"
    /\ Len(output) = Len(merged_blocks)
    /\ pc' = "done"
    /\ UNCHANGED <<segments, seg_idx, splitVars, result, all_subtitles,
                   mergeVars, output, fmtVars>>

\* a stand-alone call of match_segments
AlignStep ==
    /\ pc = "align"
    /\ word_tokens' = match_segments(tokens, Words, [k \in 1..Len(Words) |-> FALSE])
    /\ pc' = "aligned"
    /\ UNCHANGED <<segments, seg_idx, tokens, i, result, current_line,
                   current_start, char_count, word_index, all_subtitles,
                   mergeVars, output, fmtVars>>

\* a stand-alone call of format_time
FormatStep ==
    /\ pc = "format"
    /\ formatted' = format_time(seconds)
    /\ pc' = "formatted"
    /\ UNCHANGED <<segments, seg_idx, splitVars, result, all_subtitles,
                   mergeVars, output, seconds>>

----------------------------------------------------------------------------
(* Inputs *)

Word(start, end, word) == [start |-> start, end |-> end, word |-> word]

\* words said back to back from t0 on, each lasting d
Utterance(texts, t0, d) ==
    [k \in 1..Len(texts) |-> Word(t0 + (k - 1) * d, t0 + k * d, texts[k])]

Ordinary == <<"x">>
SpecialWords == {<<"x", "x">>, <<",">>, <<" ">>, <<"7">>, <<>>}
WordDurations == {Unit \div 10, Unit}

UtteranceLengths == {1, 2} \cup (LINE_MAX_WORD_LENGTH..MaxWords)

\* all words ordinary, but for one special word anywhere and possibly a
\* second one from position SpecialFrom on
UtteranceTexts(lengths) ==
    UNION {
        LET base == [k \in 1..n |-> Ordinary] IN
        {base}
        \cup {[base EXCEPT ![p] = w] : p \in 1..n, w \in SpecialWords}
        \cup {[base EXCEPT ![p] = w, ![q] = v] :
                <<p, q>> \in {pq \in (SpecialFrom..n) \X (SpecialFrom..n) : pq[1] < pq[2]},
                <<w, v>> \in SpecialWords \X SpecialWords}
        : n \in lengths }

\* the one-word utterances that follow the first one, half a second apart
RECURSIVE ShortUtterances(_, _)
ShortUtterances(t0, n) ==
    IF n = 0 THEN <<>>
    ELSE <<Utterance(<<Ordinary>>, t0 + Unit \div 2, Unit \div 2)>>
         \o ShortUtterances(t0 + Unit, n - 1)

SegmentLists(max) ==
    {<<Utterance(texts, 0, d)>> \o ShortUtterances(Len(texts) * d, n) :
        texts \in UtteranceTexts(UtteranceLengths), d \in WordDurations,
        n \in 0..(max - 1)}

Idle ==
    /\ word_tokens = <<>>
    /\ i = 0
    /\ result = <<>>
    /\ current_line = <<>>
    /\ current_start = 0
    /\ char_count = 0
    /\ word_index = 0
    /\ merged_blocks = <<>>
    /\ mi = 0
    /\ prev_need_merge = FALSE
    /\ output = <<>>
    /\ seconds = 0
    /\ formatted = <<>>

Init ==
    /\ segments \in SegmentLists(MaxSegments)
    /\ seg_idx = 1
    /\ pc = "main"
    /\ tokens = <<>>
    /\ all_subtitles = <<>>
    /\ Idle

Next ==
    \/ FastPath
    \/ SplitBegin
    \/ WalkStep
    \/ SplitEnd
    \/ MergeBegin
    \/ MergeStep
    \/ MergeEnd
    \/ WriteStep
    \/ WriteEnd

Spec == Init /\ [][Next]_vars

----------------------------------------------------------------------------
(* merge_subtitles alone, on lists of blocks *)

Hi == <<"H", "i">>
HI == <<"H", "I">>
there == <<"t", "h", "e", "r", "e">>
LongText == [k \in 1..(LINE_MAX_WORD_LENGTH + 1) |-> "x"]

BlockTexts == {<<>>, Hi, HI, there, LongText}
BlockDurations == {(8 * Unit) \div 10, (21 * Unit) \div 10}
BlockGaps == {Unit \div 10, Unit}

\* block k of the list described by ps, a sequence of <<text, duration, gap>>:
\* the first block starts at 0, each later one a gap after the one before
RECURSIVE BlockStart(_, _)
BlockStart(ps, k) ==
    IF k = 1 THEN 0 ELSE BlockStart(ps, k - 1) + ps[k - 1][2] + ps[k][3]

BlocksOf(ps) ==
    [k \in 1..Len(ps) |->
        SubtitleLine(ps[k][1], BlockStart(ps, k), BlockStart(ps, k) + ps[k][2])]

InitMerge ==
    /\ segments = <<>>
    /\ seg_idx = 1
    /\ pc = "main"
    /\ tokens = <<>>
    /\ \E n \in 0..MaxBlocks :
          \E ps \in [1..n -> BlockTexts \X BlockDurations \X BlockGaps] :
              /\ n > 0 => ps[1][3] = Unit
              /\ all_subtitles = BlocksOf(ps)
    /\ Idle

NextMerge ==
    \/ MergeBegin
    \/ MergeStep
    \/ MergeEnd

SpecMerge == InitMerge /\ [][NextMerge]_vars

----------------------------------------------------------------------------
(* match_segments alone, on short word lists and every segmentation into   *)
(* non-empty segments                                                      *)

AlignWords == {<<>>, <<"x">>, <<"x", "x">>}

RECURSIVE AlignTexts(_)
AlignTexts(n) ==
    IF n = 0 THEN {<<>>}
    ELSE {<<>>} \cup
         {<<w>> \o rest : w \in AlignWords, rest \in AlignTexts(n - 1)}

\* every way of cutting the text into non-empty segments
RECURSIVE Compositions(_)
Compositions(text) ==
    IF text = <<>> THEN {<<>>}
    ELSE UNION {{<<SubSeq(text, 1, k)>> \o rest :
                    rest \in Compositions(SubSeq(text, k + 1, Len(text)))} :
                k \in 1..Len(text)}

InitAlign ==
    /\ \E texts \in AlignTexts(MaxAlignWords) :
          /\ texts # <<>>
          /\ Len(Flatten(texts)) <= MaxAlignChars
          /\ segments = <<Utterance(texts, 0, Unit)>>
          /\ tokens \in Compositions(Flatten(texts))
    /\ seg_idx = 1
    /\ pc = "align"
    /\ all_subtitles = <<>>
    /\ Idle

NextAlign == AlignStep

SpecAlign == InitAlign /\ [][NextAlign]_vars

----------------------------------------------------------------------------
(* format_time alone *)

\* whole seconds, and fractions in ticks.  No fraction ends in 5: a decimal
\* tie of the millisecond rounding is not an exact f64 and may round either way
FormatWholeSeconds == {0, 1, 59, 60, 61, 3599, 3600, 3661, 86399, 172800}
FormatFractions == {0, 1, 4, 6, 94, 96, 100, 2354, 2356, 2396, 9994, 9996, 9999}

InitFormat ==
    /\ segments = <<>>
    /\ seg_idx = 1
    /\ pc = "format"
    /\ tokens = <<>>
    /\ all_subtitles = <<>>
    /\ word_tokens = <<>>
    /\ i = 0
    /\ result = <<>>
    /\ current_line = <<>>
    /\ current_start = 0
    /\ char_count = 0
    /\ word_index = 0
    /\ merged_blocks = <<>>
    /\ mi = 0
    /\ prev_need_merge = FALSE
    /\ output = <<>>
    /\ formatted = <<>>
    /\ seconds \in {w * Unit + f : w \in FormatWholeSeconds, f \in FormatFractions}

NextFormat == FormatStep

SpecFormat == InitFormat /\ [][NextFormat]_vars

----------------------------------------------------------------------------
(* Properties of the line splitter, under Spec *)

\* split_text_by_punctuation has just returned `result` for LastWords
Returned == pc = "main" /\ seg_idx > 1
LastWords == segments[seg_idx - 1]
GeneralPath == Len(LastWords) > LINE_MAX_WORD_LENGTH

LineTexts(lines) == Flatten([k \in 1..Len(lines) |-> lines[k].text])

RECURSIVE DeleteWhitespace(_)
DeleteWhitespace(t) ==
    IF t = <<>> THEN <<>>
    ELSE (IF Head(t) \in Whitespace THEN <<>> ELSE <<Head(t)>>)
         \o DeleteWhitespace(Tail(t))

\* C1 as stated: the texts of the returned lines, concatenated in order, are
\* the texts of the utterance's words, concatenated in order.
C1_Concatenation ==
    Returned => LineTexts(result) = WordsText(LastWords)

\* C1 amended: on the fast path the concatenation of the line texts equals the
\* concatenation of the word texts; on the general path it equals it up to the
\* whitespace that trimming removes at the ends of a line buffer, so the two
\* are equal once whitespace is deleted, and equal outright when no word
\* contains whitespace.
C1_ConcatenationUpToTrim ==
    Returned =>
        /\ ~GeneralPath => LineTexts(result) = WordsText(LastWords)
        /\ DeleteWhitespace(LineTexts(result)) = DeleteWhitespace(WordsText(LastWords))
        /\ (\A k \in 1..Len(LastWords) :
                \A c \in 1..Len(LastWords[k].word) :
                    LastWords[k].word[c] \notin Whitespace)
           => LineTexts(result) = WordsText(LastWords)

\* C1 witness: a general-path utterance returned in two lines whose
\* concatenation lost a blank that ended the first line buffer.
C1_Witness ==
    /\ Returned
    /\ GeneralPath
    /\ Len(result) = 2
    /\ LineTexts(result) # WordsText(LastWords)
    /\ Len(LineTexts(result)) = Len(WordsText(LastWords)) - 1

NumericOverflow(words) ==
    \E k \in 1..Len(words) :
        is_number(words[k].word) /\ Len(words[k].word) > LINE_MAX_WORD_LENGTH

\* C2 as stated: on the general path every returned line has at most MAX_LEN
\* characters, unless a single numeric word alone is longer than MAX_LEN.
C2_LengthCeiling ==
    Returned /\ GeneralPath =>
        \A k \in 1..Len(result) :
            Len(result[k].text) <= LINE_MAX_WORD_LENGTH \/ NumericOverflow(LastWords)

PlainAligned(words, flags) ==
    \A k \in 1..Len(words) :
        Len(words[k].word) = 1 /\ ~is_number(words[k].word) /\ flags[k]

\* C2 amended: during the walk the buffer holds MAX_LEN characters or more
\* only when the word before kept the line open by being numeric or by having
\* a false alignment flag; and for an utterance of one-character, non-numeric
\* words whose flags are all true, every returned line has at most MAX_LEN
\* characters, except the last one, which may have absorbed a remainder of at
\* most MIN_LEN/2 characters and has at most MAX_LEN + MIN_LEN/2.
C2_LengthCeilingAmended ==
    /\ pc = "walk" /\ char_count >= LINE_MAX_WORD_LENGTH =>
          /\ i > 1
          /\ is_number(Words[i - 1].word) \/ ~word_tokens[i - 1]
    /\ Returned /\ GeneralPath /\ PlainAligned(LastWords, word_tokens) =>
          \A k \in 1..Len(result) :
              Len(result[k].text) <=
                  IF k = Len(result)
                  THEN LINE_MAX_WORD_LENGTH + LINE_MIN_WORD_LENGTH \div 2
                  ELSE LINE_MAX_WORD_LENGTH

\* C2 witness: such an utterance returned with a last line longer than MAX_LEN.
C2_Witness ==
    /\ Returned
    /\ GeneralPath
    /\ PlainAligned(LastWords, word_tokens)
    /\ Len(result[Len(result)].text) > LINE_MAX_WORD_LENGTH

\* C8: every line the splitter creates has a text that is not empty after
\* trimming surrounding whitespace.
C8_NonEmptyText ==
    \A k \in 1..Len(result) : Trim(result[k].text) # <<>>

----------------------------------------------------------------------------
(* Times through the pipeline, under Spec *)

TimesOrdered(lines) ==
    /\ \A k \in 1..Len(lines) : lines[k].start_time <= lines[k].end_time
    /\ \A j, k \in 1..Len(lines) : j < k => lines[j].start_time <= lines[k].start_time

\* C3: every line of the splitter and every block of the merger has
\* start_time <= end_time, and the merged blocks are in non-decreasing
\* start_time order, each starting where a block of the input starts.
C3_MonotonicTime ==
    /\ TimesOrdered(result)
    /\ TimesOrdered(all_subtitles)
    /\ TimesOrdered(merged_blocks)
    /\ \A k \in 1..Len(merged_blocks) :
          \E j \in k..Len(all_subtitles) :
              merged_blocks[k].start_time = all_subtitles[j].start_time

\* C3 witness: a general-path utterance and a following one went through the
\* splitter and the merger, which merged at least one block away.
C3_Witness ==
    /\ pc = "done"
    /\ Len(segments) > 1
    /\ Len(segments[1]) > LINE_MAX_WORD_LENGTH
    /\ Len(merged_blocks) >= 2
    /\ Len(merged_blocks) < Len(all_subtitles)

----------------------------------------------------------------------------
(* Properties of the token aligner, under SpecAlign *)

\* characters of words 1..k / of segments 1..k
RECURSIVE WordChars(_, _)
WordChars(words, k) ==
    IF k = 0 THEN 0 ELSE WordChars(words, k - 1) + Len(words[k].word)

RECURSIVE SegmentChars(_, _)
SegmentChars(segs, k) ==
    IF k = 0 THEN 0 ELSE SegmentChars(segs, k - 1) + Len(segs[k])

\* a segment boundary falls at the end of word k
BoundaryAt(words, segs, k) ==
    \E j \in 1..Len(segs) : SegmentChars(segs, j) = WordChars(words, k)

\* C4 as stated: after match_segments the flag of a word is true if and only
\* if a segment boundary falls exactly at that word's end.
C4_FlagIffBoundary ==
    pc = "aligned" =>
        \A k \in 1..Len(Words) : word_tokens[k] <=> BoundaryAt(Words, tokens, k)

\* C4 amended: for a segmentation into non-empty segments, the flag of a word
\* is true if and only if the word's text is not empty and a segment boundary
\* falls exactly at that word's end.
C4_FlagIffBoundaryNonEmpty ==
    pc = "aligned" =>
        \A k \in 1..Len(Words) :
            word_tokens[k] <=>
                (Words[k].word # <<>> /\ BoundaryAt(Words, tokens, k))

\* C4 witness: three non-empty words; a segment spans the first two, the
\* third word spans two segments; flags false, true, true.
C4_Witness ==
    /\ pc = "aligned"
    /\ Len(Words) = 3
    /\ \A k \in 1..3 : Words[k].word # <<>>
    /\ Len(Words[3].word) = 2
    /\ tokens = <<<<"x", "x">>, <<"x">>, <<"x">>>>
    /\ word_tokens = <<FALSE, TRUE, TRUE>>

----------------------------------------------------------------------------
(* Properties of the block merger, under SpecMerge *)

LineBreaks(t) == Cardinality({k \in 1..Len(t) : t[k] = "\n"})

\* C5: every block of the output has at most two text lines, that is at most
\* one line break inside its text (the input blocks have none).
C5_TwoLineCap ==
    \A k \in 1..Len(merged_blocks) : LineBreaks(merged_blocks[k].text) <= 1

\* the output block that holds input block k, once merge_subtitles returned
OutputIndex(k) ==
    Cardinality({j \in 1..Len(merged_blocks) :
                    merged_blocks[j].start_time <= all_subtitles[k].start_time})

\* C6 as stated: two adjacent input blocks with identical (non-empty) text end
\* up in one output block, whose text is that text once when it holds just
\* these two.
C6_IdenticalCollapse ==
    pc = "write" =>
        \A k \in 1..(Len(all_subtitles) - 1) :
            /\ all_subtitles[k].text = all_subtitles[k + 1].text
            /\ all_subtitles[k].text # <<>>
            =>  /\ OutputIndex(k) = OutputIndex(k + 1)
                /\ Len(all_subtitles) = 2 =>
                      merged_blocks[1].text = all_subtitles[k].text

\* C6 amended: when a block is merged into the last emitted block and its
\* text equals that block's text, ignoring ASCII case, the emitted block keeps
\* its text unchanged (nothing is appended); blocks with identical text that
\* do not meet the merge condition stay separate.
C6_MergeKeepsIdenticalText ==
    [][pc = "merge" /\ mi <= Len(all_subtitles) /\ mi' = mi + 1
       /\ Len(merged_blocks) > 0 =>
        LET n == Len(merged_blocks)
            prev == merged_blocks[n]
            current == all_subtitles[mi]
            same == /\ Len(prev.text) = Len(current.text)
                    /\ \A c \in 1..Len(prev.text) :
                          AsciiLower(prev.text[c]) = AsciiLower(current.text[c])
        IN  /\ same /\ Len(merged_blocks') = n =>
                  merged_blocks'[n].text = prev.text
            /\ same /\ ~CanMerge(prev, current, prev_need_merge) =>
                  merged_blocks' = Append(merged_blocks, current)
    ]_vars

\* C6 witness: "Hi" then "HI", 0.1 s apart, merged into one block "Hi".
C6_Witness ==
    /\ pc = "write"
    /\ Len(all_subtitles) = 2
    /\ all_subtitles[1].text = Hi
    /\ all_subtitles[2].text = HI
    /\ Len(merged_blocks) = 1
    /\ merged_blocks[1].text = Hi
    /\ merged_blocks[1].end_time = all_subtitles[2].end_time

ExampleBlocks ==
    <<SubtitleLine(Hi, 0, (8 * Unit) \div 10),
      SubtitleLine(there, (9 * Unit) \div 10, 3 * Unit)>>
ExampleMerged == <<SubtitleLine(Hi \o there, 0, 3 * Unit)>>

----------------------------------------------------------------------------
(* Properties of the time formatter, under SpecFormat *)

IsDigits(t) == \A k \in 1..Len(t) : t[k] \in AsciiDigits

DigitValue(c) == CHOOSE d \in 0..9 : DigitChars[d + 1] = c

RECURSIVE ParseDecimal(_)
ParseDecimal(t) ==
    IF t = <<>> THEN 0
    ELSE 10 * ParseDecimal(SubSeq(t, 1, Len(t) - 1)) + DigitValue(t[Len(t)])

\* C7: the string is HH:MM:SS,mmm with minutes and seconds below 60 and a
\* millisecond field of exactly three digits, a multiple of 10 in 0..990: the
\* fractional second rounded to the nearest millisecond, then floored to a
\* multiple of 10.
C7_Shape ==
    pc = "formatted" =>
        LET hh == SubSeq(formatted, 1, 2)
            mm == SubSeq(formatted, 4, 5)
            ss == SubSeq(formatted, 7, 8)
            mmm == SubSeq(formatted, 10, Len(formatted))
            frac == seconds % Unit
            nearest == IF (frac % 10) >= 5 THEN frac \div 10 + 1 ELSE frac \div 10
        IN  /\ Len(formatted) = 12
            /\ formatted[3] = ":" /\ formatted[6] = ":" /\ formatted[9] = ","
            /\ IsDigits(hh) /\ IsDigits(mm) /\ IsDigits(ss) /\ IsDigits(mmm)
            /\ ParseDecimal(mm) < 60
            /\ ParseDecimal(ss) < 60
            /\ ParseDecimal(mmm) \in {10 * k : k \in 0..99}
            /\ ParseDecimal(mmm) = (nearest \div 10) * 10

====
